---- MODULE Spec2Model ----
(***************************************************************************)
(* Traffic Violation Management System: the dashboard page's script        *)
(* (frontend/js/main.js) as a state machine.  The state is the script's    *)
(* globals and the parts of the page it writes; one action per handler.    *)
(*                                                                         *)
(* Strings the code inspects character by character (form values, vehicle  *)
(* numbers, owner names, dates) are sequences of one-character strings;    *)
(* strings it only compares or concatenates (type and area names, status,  *)
(* alert texts) are TLA+ strings.  A JavaScript number is a record         *)
(* [nan, val]: the form values used here are integer strings, for which    *)
(* double arithmetic is exact.                                             *)
(***************************************************************************)
EXTENDS Integers, Sequences, FiniteSets, TLC

\* Largest length of the violations array explored (3 loaded + registered).
MaxViolations == 4
\* Largest number of pending alert timers explored.
MaxTimers == 1
\* Largest collection handed to the analytics functions on their own.
MaxRecords == 3
\* Largest number of pending alert timers explored for showAlert on its own.
MaxPendingAlerts == 3

VARIABLES
    pc,             \* "ready" while the page is shown, "redirected" once left
    currentUser,    \* currentUser.role
    violations,     \* the violations array
    violationTypes, \* the violationTypes array
    areas,          \* the areas array
    payments,       \* Payment entities recorded (payments table)
    alerts,         \* alert container id -> what it shows
    timers,         \* pending hide callbacks, oldest first (container ids)
    dashboard,      \* the four stat cards written by updateDashboard
    tableRows,      \* rows of violationsTableBody
    analytics       \* the cards and charts written by loadAnalytics

vars == <<pc, currentUser, violations, violationTypes, areas,
          payments, alerts, timers, dashboard, tableRows, analytics>>

(***************************************************************************)
(* JavaScript numbers                                                      *)
(***************************************************************************)
NaN == [nan |-> TRUE, val |-> 0]

Num(n) == [nan |-> FALSE, val |-> n]

\* a + b
Add(a, b) == IF a.nan \/ b.nan THEN NaN ELSE Num(a.val + b.val)

\* a - b
Sub(a, b) == IF a.nan \/ b.nan THEN NaN ELSE Num(a.val - b.val)

\* a === b on numbers: NaN equals nothing, itself included
StrictEq(a, b) == ~a.nan /\ ~b.nan /\ a.val = b.val

(***************************************************************************)
(* Strings as character sequences                                          *)
(***************************************************************************)
Digits == <<"0", "1", "2", "3", "4", "5", "6", "7", "8", "9">>

LowerChars == <<"a", "b", "c", "d", "e", "f", "g", "h", "i", "j", "k", "l", "m",
                "n", "o", "p", "q", "r", "s", "t", "u", "v", "w", "x", "y", "z">>

UpperChars == <<"A", "B", "C", "D", "E", "F", "G", "H", "I", "J", "K", "L", "M",
                "N", "O", "P", "Q", "R", "S", "T", "U", "V", "W", "X", "Y", "Z">>

IsDigit(c) == \E i \in 1..10 : Digits[i] = c

DigitVal(c) == (CHOOSE i \in 1..10 : Digits[i] = c) - 1

UpperChar(c) ==
    IF \E i \in 1..26 : LowerChars[i] = c
    THEN UpperChars[CHOOSE i \in 1..26 : LowerChars[i] = c]
    ELSE c

LowerChar(c) ==
    IF \E i \in 1..26 : UpperChars[i] = c
    THEN LowerChars[CHOOSE i \in 1..26 : UpperChars[i] = c]
    ELSE c

\* String.prototype.toUpperCase
toUpperCase(s) == [i \in 1..Len(s) |-> UpperChar(s[i])]

\* String.prototype.toLowerCase
toLowerCase(s) == [i \in 1..Len(s) |-> LowerChar(s[i])]

\* String.prototype.includes
includes(s, term) ==
    \E k \in 0..(Len(s) - Len(term)) :
        \A i \in 1..Len(term) : s[k + i] = term[i]

\* String.prototype.replace(a, b) with one-character strings: first match only
replaceFirst(s, a, b) ==
    IF \E i \in 1..Len(s) : s[i] = a
    THEN LET k == CHOOSE i \in 1..Len(s) :
                      s[i] = a /\ \A j \in 1..(i - 1) : s[j] # a
         IN  [i \in 1..Len(s) |-> IF i = k THEN b ELSE s[i]]
    ELSE s

\* Length of the longest prefix of s[from..] made of digits
RECURSIVE DigitRun(_, _)
DigitRun(s, from) ==
    IF from <= Len(s) /\ IsDigit(s[from]) THEN 1 + DigitRun(s, from + 1) ELSE 0

\* Value of the digit string s[from..from+n-1]
RECURSIVE DigitsValue(_, _, _)
DigitsValue(s, from, n) ==
    IF n = 0 THEN 0
    ELSE 10 * DigitsValue(s, from, n - 1) + DigitVal(s[from + n - 1])

\* Number of leading blanks of s
RECURSIVE BlankRun(_, _)
BlankRun(s, from) ==
    IF from <= Len(s) /\ s[from] = " " THEN 1 + BlankRun(s, from + 1) ELSE 0

\* parseFloat on strings without a fraction or exponent part: leading blanks
\* are skipped, one sign is accepted, the longest digit prefix is the value,
\* what follows is ignored, and no digit at all is NaN.
parseFloat(s) ==
    LET b    == BlankRun(s, 1)
        sgn  == IF b + 1 <= Len(s) /\ s[b + 1] \in {"-", "+"} THEN 1 ELSE 0
        from == b + sgn + 1
        n    == DigitRun(s, from)
    IN  IF n = 0 THEN NaN
        ELSE IF sgn = 1 /\ s[b + 1] = "-" THEN Num(0 - DigitsValue(s, from, n))
        ELSE Num(DigitsValue(s, from, n))

\* ToNumber of a string, as the == operator applies it: the empty string is
\* 0, a digit string is its value, anything else is NaN.
ToNumber(s) ==
    IF Len(s) = 0 THEN Num(0)
    ELSE IF DigitRun(s, 1) = Len(s) THEN Num(DigitsValue(s, 1, Len(s)))
    ELSE NaN

\* String(n) for a natural number n
RECURSIVE NatToString(_)
NatToString(n) ==
    IF n < 10 THEN <<Digits[n + 1]>>
    ELSE NatToString(n \div 10) \o <<Digits[(n % 10) + 1]>>

\* number == string (loose equality of a number and a form value)
LooseEq(n, s) == StrictEq(Num(n), ToNumber(s))

(***************************************************************************)
(* Mock master data and records                                            *)
(***************************************************************************)
\* loadViolationTypes: the mock list
MockViolationTypes == <<
    [type_id |-> 1, type_name |-> "Speeding", base_fine |-> 500],
    [type_id |-> 2, type_name |-> "Red Light Violation", base_fine |-> 1000],
    [type_id |-> 3, type_name |-> "No Helmet", base_fine |-> 300],
    [type_id |-> 4, type_name |-> "Wrong Parking", base_fine |-> 200],
    [type_id |-> 5, type_name |-> "DUI", base_fine |-> 5000],
    [type_id |-> 6, type_name |-> "No Seat Belt", base_fine |-> 500],
    [type_id |-> 7, type_name |-> "Mobile Phone Usage", base_fine |-> 750] >>

\* loadAreas: the mock list
MockAreas == <<
    [area_id |-> 1, area_name |-> "MG Road", city |-> "Bangalore"],
    [area_id |-> 2, area_name |-> "Connaught Place", city |-> "Delhi"],
    [area_id |-> 3, area_name |-> "Marine Drive", city |-> "Mumbai"],
    [area_id |-> 4, area_name |-> "Anna Salai", city |-> "Chennai"],
    [area_id |-> 5, area_name |-> "Park Street", city |-> "Kolkata"] >>

\* loadViolations: the mock list
MockViolations == <<
    [violation_id |-> 1,
     vehicle_number |-> <<"K", "A", "0", "1", "A", "B", "1", "2", "3", "4">>,
     owner_name |-> <<"J", "o", "h", "n", " ", "D", "o", "e">>,
     type_name |-> "Speeding", area_name |-> "MG Road",
     violation_date |-> <<"2", "0", "2", "5", "-", "0", "1", "-", "1", "5", " ",
                          "1", "0", ":", "3", "0">>,
     fine_amount |-> Num(500), status |-> "paid"],
    [violation_id |-> 2,
     vehicle_number |-> <<"D", "L", "0", "2", "C", "D", "5", "6", "7", "8">>,
     owner_name |-> <<"J", "a", "n", "e", " ", "S", "m", "i", "t", "h">>,
     type_name |-> "Red Light Violation", area_name |-> "Connaught Place",
     violation_date |-> <<"2", "0", "2", "5", "-", "0", "1", "-", "1", "4", " ",
                          "1", "4", ":", "4", "5">>,
     fine_amount |-> Num(1000), status |-> "unpaid"],
    [violation_id |-> 3,
     vehicle_number |-> <<"M", "H", "0", "3", "E", "F", "9", "0", "1", "2">>,
     owner_name |-> <<"M", "i", "k", "e", " ", "B", "r", "o", "w", "n">>,
     type_name |-> "No Helmet", area_name |-> "Marine Drive",
     violation_date |-> <<"2", "0", "2", "5", "-", "0", "1", "-", "1", "3", " ",
                          "0", "9", ":", "1", "5">>,
     fine_amount |-> Num(300), status |-> "paid"] >>

(***************************************************************************)
(* Form values                                                             *)
(***************************************************************************)
\* Values of the vehicleNumber field tried
VehicleInputs == {<<>>, <<"k", "a", "0", "5", "x", "y">>}

\* Values of the violationType field tried: none, type 4, and type 8, which
\* the violation_types table holds but the script's list does not
TypeInputs == {<<>>, <<"4">>, <<"8">>}

\* Values of the area field tried: none, and area 1
AreaInputs == {<<>>, <<"1">>}

\* Values of the violationDate field tried
DateInputs == {<<>>, <<"2", "0", "2", "5", "-", "0", "1", "-", "1", "6", "T",
                       "0", "9", ":", "0", "0">>}

\* Values typed into the fineAmount field: the field cleared, a negative amount
FineInputs == {<<>>, <<"-", "1", "0", "0">>}

\* Terms typed into the searchInput field
SearchInputs == {<<>>, <<"K", "a">>}

\* Identifiers passed to markAsPaid
IdInputs == 1..(MaxViolations + 1)

TabNames == {"dashboard", "violations", "register", "analytics"}

\* Roles tried: the script tells citizens from the rest, and "admin" takes the
\* same branches as "officer"
Roles == {"officer", "citizen"}

(***************************************************************************)
(* Lookups                                                                 *)
(***************************************************************************)
\* Array.prototype.find on the types list: index of the first match, 0 if none
FindType(types, typeId) ==
    IF \E i \in 1..Len(types) : LooseEq(types[i].type_id, typeId)
    THEN CHOOSE i \in 1..Len(types) :
             /\ LooseEq(types[i].type_id, typeId)
             /\ \A j \in 1..(i - 1) : ~LooseEq(types[j].type_id, typeId)
    ELSE 0

FindArea(as, areaId) ==
    IF \E i \in 1..Len(as) : LooseEq(as[i].area_id, areaId)
    THEN CHOOSE i \in 1..Len(as) :
             /\ LooseEq(as[i].area_id, areaId)
             /\ \A j \in 1..(i - 1) : ~LooseEq(as[j].area_id, areaId)
    ELSE 0

getViolationTypeName(types, typeId) ==
    IF FindType(types, typeId) # 0
    THEN types[FindType(types, typeId)].type_name
    ELSE "Unknown"

getAreaName(as, areaId) ==
    IF FindArea(as, areaId) # 0
    THEN as[FindArea(as, areaId)].area_name \o ", " \o as[FindArea(as, areaId)].city
    ELSE "Unknown"

\* PrefilledFine with the option index used on the types list, which has no
\* placeholder entry: the fine of the next type
PrefilledFineNextType(types, typeId) ==
    IF Len(typeId) > 0 /\ FindType(types, typeId) # 0
    THEN NatToString(types[(FindType(types, typeId) % Len(types)) + 1].base_fine)
    ELSE <<>>

\* What the change listener of the violationType select leaves in the
\* fineAmount field (empty after a reset) when the option valued typeId is
\* chosen: the option's data-fine, if the dropdown has such an option.
PrefilledFine(types, typeId) ==
    IF Len(typeId) > 0 /\ FindType(types, typeId) # 0
    THEN NatToString(types[FindType(types, typeId)].base_fine)
    ELSE <<>>

\* validateViolationForm without the area check
validateViolationFormNoArea(data) ==
    IF Len(data.vehicle_number) = 0 THEN "Please enter vehicle number"
    ELSE IF Len(data.type_id) = 0 THEN "Please select violation type"
    ELSE IF Len(data.violation_date) = 0 THEN "Please select date and time"
    ELSE ""

\* validateViolationForm with the type checked before the vehicle number
validateViolationFormTypeFirst(data) ==
    IF Len(data.type_id) = 0 THEN "Please select violation type"
    ELSE IF Len(data.vehicle_number) = 0 THEN "Please enter vehicle number"
    ELSE IF Len(data.area_id) = 0 THEN "Please select area"
    ELSE IF Len(data.violation_date) = 0 THEN "Please select date and time"
    ELSE ""

\* validateViolationForm: the message of the first failing check, "" if none
validateViolationForm(data) ==
    IF Len(data.vehicle_number) = 0 THEN "Please enter vehicle number"
    ELSE IF Len(data.type_id) = 0 THEN "Please select violation type"
    ELSE IF Len(data.area_id) = 0 THEN "Please select area"
    ELSE IF Len(data.violation_date) = 0 THEN "Please select date and time"
    ELSE ""

\* The form values a submit can carry: every combination of the four required
\* fields, with the fine as the dropdown left it; a complete form also with
\* each typed fine.
FormData ==
    UNION { { [vehicle_number |-> v, type_id |-> t, area_id |-> a,
               violation_date |-> d, fine_amount |-> f] :
                v \in VehicleInputs, a \in AreaInputs, d \in DateInputs,
                f \in {PrefilledFine(MockViolationTypes, t)} }
            \cup
            { [vehicle_number |-> v, type_id |-> t, area_id |-> a,
               violation_date |-> d, fine_amount |-> f] :
                v \in VehicleInputs \ {<<>>}, a \in AreaInputs \ {<<>>},
                d \in DateInputs \ {<<>>}, f \in FineInputs }
            : t \in TypeInputs }

(***************************************************************************)
(* Aggregation                                                             *)
(***************************************************************************)
\* violations.reduce((sum, v) => sum + v.fine_amount, 0)
RECURSIVE SumFines(_)
SumFines(vs) ==
    IF Len(vs) = 0 THEN Num(0)
    ELSE Add(SumFines(SubSeq(vs, 1, Len(vs) - 1)), vs[Len(vs)].fine_amount)

\* violations.filter(v => v.status === status)
WithStatus(vs, status) == SelectSeq(vs, LAMBDA v : v.status = status)

TotalFineAmount(vs) == SumFines(vs)

CollectedAmount(vs) == SumFines(WithStatus(vs, "paid"))

PendingAmount(vs) == Sub(TotalFineAmount(vs), CollectedAmount(vs))

\* updateDashboard: the values handed to the four stat cards
DashboardStats(vs) ==
    [totalViolations |-> Len(vs),
     totalFines      |-> TotalFineAmount(vs),
     collectedAmount |-> CollectedAmount(vs),
     pendingAmount   |-> PendingAmount(vs)]

\* createActionButtons
createActionButtons(v, role) ==
    IF v.status = "unpaid" /\ role # "citizen" THEN "markAsPaid" ELSE "-"

\* One row of violationsTableBody
TableRow(v, role) ==
    [violation_id |-> v.violation_id, status |-> v.status,
     action |-> createActionButtons(v, role)]

\* loadViolationsTable
TableOf(vs, role) == [i \in 1..Len(vs) |-> TableRow(vs[i], role)]

RECURSIVE Pow10(_)
Pow10(d) == IF d = 0 THEN 1 ELSE 10 * Pow10(d - 1)

Abs(n) == IF n < 0 THEN 0 - n ELSE n

\* s.padStart(w, "0")
PadStart(s, w) ==
    IF Len(s) >= w THEN s
    ELSE [i \in 1..w |-> IF i <= w - Len(s) THEN "0" ELSE s[i - (w - Len(s))]]

\* The nearest integer to num / den for num >= 0 and den > 0, the larger one
\* of two that are equally near
RoundHalfUp(num, den) == (2 * num + den) \div (2 * den)

\* (num / den).toFixed(digits) for integers num and den > 0 and digits > 0:
\* the quotient rounded to that many decimals, as text
toFixed(num, den, digits) ==
    LET n    == RoundHalfUp(Abs(num) * Pow10(digits), den)
        text == NatToString(n \div Pow10(digits)) \o <<".">>
                    \o PadStart(NatToString(n % Pow10(digits)), digits)
    IN  IF num < 0 THEN <<"-">> \o text ELSE text

\* NaN.toFixed(digits)
NaNText == <<"N", "a", "N">>

\* The number 0 as it is written into the page
ZeroText == <<"0">>

\* updateAnalyticsStats: collectionRate
CollectionRate(vs) ==
    LET total     == TotalFineAmount(vs)
        collected == CollectedAmount(vs)
    IN  IF ~total.nan /\ total.val > 0
        THEN IF collected.nan THEN NaNText
             ELSE toFixed(collected.val * 100, total.val, 1)
        ELSE ZeroText

\* updateAnalyticsStats: avgFine
AvgFine(vs) ==
    LET total == TotalFineAmount(vs)
    IN  IF Len(vs) > 0
        THEN IF total.nan THEN NaNText ELSE toFixed(total.val, Len(vs), 2)
        ELSE ZeroText

\* updateAnalyticsStats: the values handed to the four analytics cards
AnalyticsStats(vs) ==
    [paidCount      |-> Len(WithStatus(vs, "paid")),
     unpaidCount    |-> Len(WithStatus(vs, "unpaid")),
     collectionRate |-> CollectionRate(vs),
     avgFine        |-> AvgFine(vs)]

\* Position of the entry for key in stats, 0 if there is none
EntryOf(stats, key) ==
    IF \E i \in 1..Len(stats) : stats[i].label = key
    THEN CHOOSE i \in 1..Len(stats) : stats[i].label = key
    ELSE 0

\* The tally with each new key put in front of the keys seen before
RECURSIVE TallyNewestFirst(_)
TallyNewestFirst(keys) ==
    IF Len(keys) = 0 THEN <<>>
    ELSE LET stats == TallyNewestFirst(SubSeq(keys, 1, Len(keys) - 1))
             key   == keys[Len(keys)]
         IN  IF EntryOf(stats, key) # 0
             THEN [stats EXCEPT ![EntryOf(stats, key)].count = @ + 1]
             ELSE <<[label |-> key, count |-> 1]>> \o stats

\* keys.forEach(k => { stats[k] = (stats[k] || 0) + 1 }) followed by
\* Object.entries(stats): a property keeps the place it was created at
RECURSIVE Tally(_)
Tally(keys) ==
    IF Len(keys) = 0 THEN <<>>
    ELSE LET stats == Tally(SubSeq(keys, 1, Len(keys) - 1))
             key   == keys[Len(keys)]
         IN  IF EntryOf(stats, key) # 0
             THEN [stats EXCEPT ![EntryOf(stats, key)].count = @ + 1]
             ELSE Append(stats, [label |-> key, count |-> 1])

\* The bars of a chart: label, count and the count's share of all records
ChartBars(keys) ==
    [i \in 1..Len(Tally(keys)) |->
        [label      |-> Tally(keys)[i].label,
         count      |-> Tally(keys)[i].count,
         percentage |-> toFixed(Tally(keys)[i].count * 100, Len(keys), 1)]]

AreaKeys(vs) == [i \in 1..Len(vs) |-> vs[i].area_name]

TypeKeys(vs) == [i \in 1..Len(vs) |-> vs[i].type_name]

\* displayAreaChart
displayAreaChart(vs) == ChartBars(AreaKeys(vs))

\* displayTypeChart
displayTypeChart(vs) == ChartBars(TypeKeys(vs))

\* loadAnalytics: what the analytics tab shows
loadAnalytics(vs) ==
    [stats     |-> AnalyticsStats(vs),
     areaChart |-> displayAreaChart(vs),
     typeChart |-> displayTypeChart(vs)]

(***************************************************************************)
(* Alerts                                                                  *)
(***************************************************************************)
AlertContainers == {"registerAlert", "globalAlertContainer"}

Hidden == [type |-> "", message |-> "", display |-> "none"]

\* showAlert: the container's new content
Shown(message, type) == [type |-> type, message |-> message, display |-> "block"]

\* showAlert(message, type, containerId) while fewer than cap of its timers
\* are pending; a null containerId is the global one
showAlertUpTo(cap, message, type, containerId) ==
    /\ Len(timers) < cap
    /\ alerts' = [alerts EXCEPT ![containerId] = Shown(message, type)]
    /\ timers' = Append(timers, containerId)

\* showAlert(message, type, containerId)
showAlert(message, type, containerId) ==
    showAlertUpTo(MaxTimers, message, type, containerId)

(***************************************************************************)
(* State machine                                                           *)
(***************************************************************************)
\* The page after DOMContentLoaded for a signed-in user
Init ==
    /\ pc = "ready"
    /\ currentUser \in Roles
    /\ violations = MockViolations
    /\ violationTypes = MockViolationTypes
    /\ areas = MockAreas
    /\ payments = <<>>
    /\ alerts = [c \in AlertContainers |-> Hidden]
    /\ timers = <<>>
    /\ dashboard = DashboardStats(MockViolations)
    /\ tableRows = TableOf(MockViolations, currentUser)
    /\ analytics = loadAnalytics(MockViolations)

\* The record with the collection's length as its identifier
NewViolationIdIsLength(data) ==
    [violation_id   |-> Len(violations),
     vehicle_number |-> toUpperCase(data.vehicle_number),
     owner_name     |-> <<"U", "n", "k", "n", "o", "w", "n">>,
     type_name      |-> getViolationTypeName(violationTypes, data.type_id),
     area_name      |-> getAreaName(areas, data.area_id),
     violation_date |-> replaceFirst(data.violation_date, "T", " "),
     fine_amount    |-> parseFloat(data.fine_amount),
     status         |-> "unpaid"]

\* The record registerViolation builds from the form values
NewViolation(data) ==
    [violation_id   |-> Len(violations) + 1,
     vehicle_number |-> toUpperCase(data.vehicle_number),
     owner_name     |-> <<"U", "n", "k", "n", "o", "w", "n">>,
     type_name      |-> getViolationTypeName(violationTypes, data.type_id),
     area_name      |-> getAreaName(areas, data.area_id),
     violation_date |-> replaceFirst(data.violation_date, "T", " "),
     fine_amount    |-> parseFloat(data.fine_amount),
     status         |-> "unpaid"]

\* registerViolation, validation failing
RegisterInvalid(data) ==
    /\ pc = "ready"
    /\ validateViolationForm(data) # ""
    /\ showAlert(validateViolationForm(data), "error", "registerAlert")
    /\ UNCHANGED <<pc, currentUser, violations, violationTypes, areas, payments,
                   dashboard, tableRows, analytics>>

\* registerViolation, validation passing
RegisterValid(data) ==
    /\ pc = "ready"
    /\ validateViolationForm(data) = ""
    /\ Len(violations) < MaxViolations
    /\ violations' = <<NewViolation(data)>> \o violations
    /\ showAlert("Violation registered successfully!", "success", "registerAlert")
    /\ dashboard' = DashboardStats(violations')
    /\ tableRows' = TableOf(violations', currentUser)
    /\ UNCHANGED <<pc, currentUser, violationTypes, areas, payments, analytics>>

registerViolation(data) == RegisterInvalid(data) \/ RegisterValid(data)

\* violations.find(v => v.violation_id === violationId): index, 0 if none
FindViolation(vs, violationId) ==
    IF \E i \in 1..Len(vs) : vs[i].violation_id = violationId
    THEN CHOOSE i \in 1..Len(vs) :
             /\ vs[i].violation_id = violationId
             /\ \A j \in 1..(i - 1) : vs[j].violation_id # violationId
    ELSE 0

\* markAsPaid, no such record
MarkAsPaidNotFound(violationId) ==
    /\ pc = "ready"
    /\ FindViolation(violations, violationId) = 0
    /\ showAlert("Violation not found", "error", "globalAlertContainer")
    /\ UNCHANGED <<pc, currentUser, violations, violationTypes, areas, payments,
                   dashboard, tableRows, analytics>>

\* markAsPaid flipping the status instead of setting it
MarkAsPaidToggled(violationId) ==
    /\ pc = "ready"
    /\ FindViolation(violations, violationId) # 0
    /\ violations' = [violations EXCEPT
                         ![FindViolation(violations, violationId)].status =
                             IF @ = "paid" THEN "unpaid" ELSE "paid"]
    /\ showAlert("Payment recorded successfully!", "success", "globalAlertContainer")
    /\ dashboard' = DashboardStats(violations')
    /\ tableRows' = TableOf(violations', currentUser)
    /\ analytics' = loadAnalytics(violations')
    /\ UNCHANGED <<pc, currentUser, violationTypes, areas, payments>>

\* markAsPaid, the confirm dialog accepted
MarkAsPaidConfirmed(violationId) ==
    /\ pc = "ready"
    /\ FindViolation(violations, violationId) # 0
    /\ violations' = [violations EXCEPT
                         ![FindViolation(violations, violationId)].status = "paid"]
    /\ showAlert("Payment recorded successfully!", "success", "globalAlertContainer")
    /\ dashboard' = DashboardStats(violations')
    /\ tableRows' = TableOf(violations', currentUser)
    /\ analytics' = loadAnalytics(violations')
    /\ UNCHANGED <<pc, currentUser, violationTypes, areas, payments>>

\* markAsPaid, the confirm dialog dismissed
MarkAsPaidCancelled(violationId) ==
    /\ pc = "ready"
    /\ FindViolation(violations, violationId) # 0
    /\ UNCHANGED vars

markAsPaid(violationId) ==
    \/ MarkAsPaidNotFound(violationId)
    \/ MarkAsPaidConfirmed(violationId)
    \/ MarkAsPaidCancelled(violationId)

\* switchTab
switchTab(tabName) ==
    /\ pc = "ready"
    /\ dashboard' = IF tabName = "dashboard" THEN DashboardStats(violations)
                    ELSE dashboard
    /\ tableRows' = IF tabName = "violations" THEN TableOf(violations, currentUser)
                    ELSE tableRows
    /\ analytics' = IF tabName = "analytics" THEN loadAnalytics(violations)
                    ELSE analytics
    /\ UNCHANGED <<pc, currentUser, violations, violationTypes, areas, payments,
                   alerts, timers>>

\* The filter of searchViolations
Matches(v, searchTerm) ==
    \/ includes(toLowerCase(v.vehicle_number), searchTerm)
    \/ (Len(v.owner_name) > 0 /\ includes(toLowerCase(v.owner_name), searchTerm))

\* searchViolations
searchViolations(input) ==
    /\ pc = "ready"
    /\ LET searchTerm == toLowerCase(input)
       IN  tableRows' =
               IF Len(searchTerm) = 0 THEN TableOf(violations, currentUser)
               ELSE TableOf(SelectSeq(violations, LAMBDA v : Matches(v, searchTerm)),
                            currentUser)
    /\ UNCHANGED <<pc, currentUser, violations, violationTypes, areas, payments,
                   alerts, timers, dashboard, analytics>>

\* The callback showAlert hands to setTimeout
AlertTimeout ==
    /\ pc = "ready"
    /\ Len(timers) > 0
    /\ alerts' = [alerts EXCEPT ![Head(timers)] = Hidden]
    /\ timers' = Tail(timers)
    /\ UNCHANGED <<pc, currentUser, violations, violationTypes, areas, payments,
                   dashboard, tableRows, analytics>>

\* logout, the confirm dialog accepted: sessionStorage is cleared and the page
\* is left, which discards the script's state and its pending timers
logout ==
    /\ pc = "ready"
    /\ pc' = "redirected"
    /\ currentUser' = "none"
    /\ violations' = <<>>
    /\ violationTypes' = <<>>
    /\ areas' = <<>>
    /\ payments' = <<>>
    /\ alerts' = [c \in AlertContainers |-> Hidden]
    /\ timers' = <<>>
    /\ dashboard' = DashboardStats(<<>>)
    /\ tableRows' = <<>>
    /\ analytics' = loadAnalytics(<<>>)

Next ==
    \/ \E data \in FormData : RegisterInvalid(data)
    \/ \E data \in FormData : RegisterValid(data)
    \/ \E id \in IdInputs : MarkAsPaidNotFound(id)
    \/ \E id \in IdInputs : MarkAsPaidConfirmed(id)
    \/ \E id \in IdInputs : MarkAsPaidCancelled(id)
    \/ \E tabName \in TabNames : switchTab(tabName)
    \/ \E input \in SearchInputs : searchViolations(input)
    \/ AlertTimeout
    \/ logout

Spec == Init /\ [][Next]_vars

(***************************************************************************)
(* The analytics functions on collections other than the loaded one        *)
(***************************************************************************)
\* Records as loadViolations delivers them: the three loaded ones, and the
\* same with MG Road as their area
StatsRecords ==
    {MockViolations[i] : i \in 1..Len(MockViolations)}
        \cup {[MockViolations[i] EXCEPT !.area_name = "MG Road"] :
                  i \in 1..Len(MockViolations)}

\* Collections of up to MaxRecords such records, the newest first, numbered
\* as the violations table numbers them
StatsCollections ==
    UNION {{[i \in 1..n |-> [rs[i] EXCEPT !.violation_id = n - i + 1]] :
               rs \in [1..n -> StatsRecords]} : n \in 0..MaxRecords}

\* The page after loadInitialData on such a collection
InitStats ==
    /\ pc = "ready"
    /\ currentUser \in Roles
    /\ violations \in StatsCollections
    /\ violationTypes = MockViolationTypes
    /\ areas = MockAreas
    /\ payments = <<>>
    /\ alerts = [c \in AlertContainers |-> Hidden]
    /\ timers = <<>>
    /\ dashboard = DashboardStats(violations)
    /\ tableRows = TableOf(violations, currentUser)
    /\ analytics = loadAnalytics(violations)

NextStats ==
    \/ \E tabName \in TabNames : switchTab(tabName)
    \/ \E input \in SearchInputs : searchViolations(input)

SpecStats == InitStats /\ [][NextStats]_vars

(***************************************************************************)
(* showAlert and its timers, with several alerts pending                   *)
(***************************************************************************)
\* The calls of showAlert the handlers make: message, type and container
AlertCalls ==
    {<<"Please select area", "error", "registerAlert">>,
     <<"Violation registered successfully!", "success", "registerAlert">>,
     <<"Violation not found", "error", "globalAlertContainer">>,
     <<"Payment recorded successfully!", "success", "globalAlertContainer">>}

\* One call of showAlert
ShowAlertCall(call) ==
    /\ pc = "ready"
    /\ showAlertUpTo(MaxPendingAlerts, call[1], call[2], call[3])
    /\ UNCHANGED <<pc, currentUser, violations, violationTypes, areas, payments,
                   dashboard, tableRows, analytics>>

NextAlerts ==
    \/ \E call \in AlertCalls : ShowAlertCall(call)
    \/ AlertTimeout

SpecAlerts == Init /\ [][NextAlerts]_vars

(***************************************************************************)
(* Properties                                                              *)
(***************************************************************************)
\* Index of the record with this identifier
IndexOf(vs, violationId) == FindViolation(vs, violationId)

RequiredFields == {"vehicle_number", "type_id", "area_id", "violation_date"}

\* The required fields a form input leaves empty
MissingFields(data) == {f \in RequiredFields : Len(data[f]) = 0}

\* The fields a shown alert names
ReportedFields(alert) ==
    IF alert.type # "error" THEN {}
    ELSE IF alert.message = "Please enter vehicle number" THEN {"vehicle_number"}
    ELSE IF alert.message = "Please select violation type" THEN {"type_id"}
    ELSE IF alert.message = "Please select area" THEN {"area_id"}
    ELSE IF alert.message = "Please select date and time" THEN {"violation_date"}
    ELSE {}

\* The first required field, in the order of the form, that an input leaves empty
FirstMissing(data) ==
    IF "vehicle_number" \in MissingFields(data) THEN "vehicle_number"
    ELSE IF "type_id" \in MissingFields(data) THEN "type_id"
    ELSE IF "area_id" \in MissingFields(data) THEN "area_id"
    ELSE "violation_date"

\* C1: in every reachable state the collected amount plus the pending amount
\* shown by the dashboard equals the total fine amount, exactly.
C1_CollectedPlusPendingIsTotal ==
    /\ StrictEq(Add(dashboard.collectedAmount, dashboard.pendingAmount),
                dashboard.totalFines)
    /\ StrictEq(Add(CollectedAmount(violations), PendingAmount(violations)),
                TotalFineAmount(violations))

\* C2: a record whose status is paid is still in the collection, and still
\* paid, after any step that stays on the page (registerViolation, markAsPaid,
\* switchTab, searchViolations, an alert timeout).
C2_PaidStaysPaid ==
    [][pc' = "ready" =>
       \A i \in 1..Len(violations) :
           violations[i].status = "paid" =>
               /\ IndexOf(violations', violations[i].violation_id) # 0
               /\ \A j \in 1..Len(violations') :
                      violations'[j].violation_id = violations[i].violation_id
                          => violations'[j].status = "paid"]_vars

\* C2 witness: a record that was loaded unpaid is paid, a record was registered
\* and a search has filtered the table since.
C2_Witness ==
    /\ Len(violations) > Len(MockViolations)
    /\ violations[IndexOf(violations, 2)].status = "paid"
    /\ Len(tableRows) < Len(violations)

\* C3: markAsPaid, confirmed, on a record that is already paid is rejected
\* with an error and leaves the collection as it was.
C3_DoublePaymentRejected ==
    [][\A id \in IdInputs :
           (/\ IndexOf(violations, id) # 0
            /\ violations[IndexOf(violations, id)].status = "paid"
            /\ MarkAsPaidConfirmed(id))
               => /\ alerts'["globalAlertContainer"].type = "error"
                  /\ violations' = violations]_vars

\* C4: markAsPaid, confirmed, on a record that is not paid sets its status to
\* paid and appends exactly one Payment for that violation.
C4_PaymentAppended ==
    [][\A id \in IdInputs :
           (/\ IndexOf(violations, id) # 0
            /\ violations[IndexOf(violations, id)].status # "paid"
            /\ MarkAsPaidConfirmed(id))
               => /\ violations'[IndexOf(violations', id)].status = "paid"
                  /\ Len(payments') = Len(payments) + 1
                  /\ payments'[Len(payments')].violation_id = id]_vars

\* C5: markAsPaid, confirmed, on a record that is not paid and has fine f
\* raises the collected amount by exactly f, lowers the pending amount by
\* exactly f, and leaves the count and the total unchanged; on the three
\* loaded records it yields collected 1800 and pending 0.
C5_MarkPaidMovesFine ==
    [][\A id \in IdInputs :
           (/\ IndexOf(violations, id) # 0
            /\ violations[IndexOf(violations, id)].status # "paid"
            /\ MarkAsPaidConfirmed(id))
               => LET f == violations[IndexOf(violations, id)].fine_amount
                  IN  /\ StrictEq(dashboard'.collectedAmount,
                                  Add(dashboard.collectedAmount, f))
                      /\ StrictEq(dashboard'.pendingAmount,
                                  Sub(dashboard.pendingAmount, f))
                      /\ StrictEq(dashboard'.totalFines, dashboard.totalFines)
                      /\ dashboard'.totalViolations = dashboard.totalViolations
                      /\ (violations = MockViolations =>
                             /\ dashboard'.collectedAmount = Num(1800)
                             /\ dashboard'.pendingAmount = Num(0))]_vars

\* C6: registerViolation with an empty vehicle number, violation type, area
\* or date shows an error that names a field the input leaves empty, and
\* leaves the collection as it was.
C6_MissingFieldRejected ==
    [][timers' # timers =>
       \A data \in FormData :
           (MissingFields(data) # {} /\ registerViolation(data))
               => /\ violations' = violations
                  /\ alerts'["registerAlert"].type = "error"
                  /\ ReportedFields(alerts'["registerAlert"]) # {}
                  /\ ReportedFields(alerts'["registerAlert"])
                         \subseteq MissingFields(data)]_vars

\* C6 witness: the form was submitted without an area; the error names the
\* area and no record was added.
C6_Witness ==
    /\ alerts["registerAlert"] = Shown("Please select area", "error")
    /\ violations = MockViolations

C8_DefaultFineIsBaseFine ==
    [][Len(violations') > Len(violations) =>
       \A data \in FormData :
           (/\ FindType(violationTypes, data.type_id) # 0
            /\ data.fine_amount = PrefilledFine(violationTypes, data.type_id)
            /\ RegisterValid(data))
               => /\ Len(violations') = Len(violations) + 1
                  /\ violations'[1].status = "unpaid"
                  /\ violations'[1].fine_amount =
                         Num(violationTypes[FindType(violationTypes,
                                                     data.type_id)].base_fine)]_vars

\* C8 witness: a registered record of type Wrong Parking, unpaid, with that
\* type's base fine of 200.
C8_Witness ==
    \E i \in 1..Len(violations) :
        /\ violations[i].violation_id > Len(MockViolations)
        /\ violations[i].type_name = "Wrong Parking"
        /\ violations[i].status = "unpaid"
        /\ violations[i].fine_amount = Num(200)

\* The type name of a record is the name of a violation type
TypeResolves(name) ==
    \E i \in 1..Len(violationTypes) : violationTypes[i].type_name = name

\* The area name of a record is the name of an area, with or without its city
AreaResolves(name) ==
    \E i \in 1..Len(areas) :
        \/ areas[i].area_name = name
        \/ areas[i].area_name \o ", " \o areas[i].city = name

\* C9: in every reachable state the type and the area of every record
\* resolve to an existing violation type and an existing area.
C9_ReferencesResolve ==
    \A i \in 1..Len(violations) :
        /\ TypeResolves(violations[i].type_name)
        /\ AreaResolves(violations[i].area_name)

\* C10: in every reachable state the fine amount of every record is a
\* number and is not negative.
C10_FineNonNegative ==
    \A i \in 1..Len(violations) :
        /\ ~violations[i].fine_amount.nan
        /\ violations[i].fine_amount.val >= 0

\* No two records of a collection carry the same identifier
IdsDistinct(vs) ==
    \A i, j \in 1..Len(vs) : vs[i].violation_id = vs[j].violation_id => i = j

\* C11: in every state reached by registerViolation and markAsPaid no two
\* records share an identifier, and a step that stays on the page leaves the
\* identifier of every record that was already in the collection as it was.
C11_IdsUniqueAndStable ==
    [][/\ IdsDistinct(violations)
       /\ pc' = "ready" =>
              /\ IdsDistinct(violations')
              /\ Len(violations') >= Len(violations)
              /\ \A i \in 1..Len(violations) :
                     violations'[Len(violations') - Len(violations) + i].violation_id
                         = violations[i].violation_id]_vars

\* C11 witness: a record was registered and a loaded record was marked paid;
\* the collection holds the identifiers 1 to 4, the new one at the head.
C11_Witness ==
    /\ Len(violations) = Len(MockViolations) + 1
    /\ violations[1].violation_id = Len(MockViolations) + 1
    /\ {violations[i].violation_id : i \in 1..Len(violations)} = 1..Len(violations)
    /\ violations[IndexOf(violations, 2)].status = "paid"

\* text is the quotient num / den, den > 0, written with that many decimals
\* and no further from the quotient than half a unit of the last decimal
IsRounded(text, num, den, digits) ==
    \E n \in {(num * Pow10(digits)) \div den, (num * Pow10(digits)) \div den + 1} :
        /\ n >= 0
        /\ 2 * Abs(n * den - num * Pow10(digits)) <= den
        /\ text = NatToString(n \div Pow10(digits)) \o <<".">>
                      \o PadStart(NatToString(n % Pow10(digits)), digits)

\* C12: for the collection of every reachable state the collection rate is
\* collected / total * 100 rounded to one decimal and the average fine is
\* total / count rounded to two decimals, each 0 when its denominator is 0;
\* for the three loaded records they are 44.4 and 600.00.
C12_RateAndAverage ==
    pc = "ready" =>
        LET total     == TotalFineAmount(violations)
            collected == CollectedAmount(violations)
        IN  /\ IF StrictEq(total, Num(0))
               THEN CollectionRate(violations) = ZeroText
               ELSE /\ ~total.nan /\ ~collected.nan
                    /\ IsRounded(CollectionRate(violations),
                                 collected.val * 100, total.val, 1)
            /\ IF Len(violations) = 0
               THEN AvgFine(violations) = ZeroText
               ELSE /\ ~total.nan
                    /\ IsRounded(AvgFine(violations), total.val,
                                 Len(violations), 2)
            /\ violations = MockViolations =>
                   /\ CollectionRate(violations) = <<"4", "4", ".", "4">>
                   /\ AvgFine(violations) = <<"6", "0", "0", ".", "0", "0">>

\* The first position of key in keys
FirstIndex(keys, key) ==
    CHOOSE i \in 1..Len(keys) :
        keys[i] = key /\ \A j \in 1..(i - 1) : keys[j] # key

\* chart has one bar for each distinct key of keys, with the number of
\* positions holding that key, the bars in the order the keys first occur
GroupsInFirstOccurrenceOrder(chart, keys) ==
    /\ {chart[i].label : i \in 1..Len(chart)} = {keys[j] : j \in 1..Len(keys)}
    /\ \A i, j \in 1..Len(chart) : chart[i].label = chart[j].label => i = j
    /\ \A i \in 1..Len(chart) :
           chart[i].count =
               Cardinality({j \in 1..Len(keys) : keys[j] = chart[i].label})
    /\ \A i, j \in 1..Len(chart) :
           i < j => FirstIndex(keys, chart[i].label)
                        < FirstIndex(keys, chart[j].label)

\* C13: the by-area and the by-type breakdown of a collection have exactly
\* one entry per distinct area or type, each with the number of records of
\* that area or type, listed in the order in which the areas or types first
\* occur in the collection, whatever their counts.
C13_GroupsInFirstOccurrenceOrder ==
    /\ GroupsInFirstOccurrenceOrder(displayAreaChart(violations),
                                    AreaKeys(violations))
    /\ GroupsInFirstOccurrenceOrder(displayTypeChart(violations),
                                    TypeKeys(violations))
    /\ analytics.areaChart = displayAreaChart(violations)
    /\ analytics.typeChart = displayTypeChart(violations)

\* C13 witness: the area chart on display lists an area with one record
\* before an area with two, and the type chart a type with two records
\* before a type with one.
C13_Witness ==
    /\ Len(analytics.areaChart) = 2
    /\ analytics.areaChart[1].count = 1
    /\ analytics.areaChart[2].count = 2
    /\ Len(analytics.typeChart) = 2
    /\ analytics.typeChart[1].count = 2
    /\ analytics.typeChart[2].count = 1

\* C14: after every registerViolation that adds a record and every confirmed
\* markAsPaid, the dashboard totals, the violations table and the analytics
\* statistics and breakdowns on display are those of the collection as it is
\* then.
C14_DisplaysReaggregated ==
    [][(\/ Len(violations') > Len(violations)
        \/ \E id \in IdInputs : MarkAsPaidConfirmed(id))
           => /\ dashboard' = DashboardStats(violations')
              /\ tableRows' = TableOf(violations', currentUser')
              /\ analytics' = loadAnalytics(violations')]_vars

\* C15: while the role of the current user is citizen, no call of
\* registerViolation or markAsPaid adds a record to the collection or changes
\* the status of a record.
C15_CitizenChangesNothing ==
    [][(currentUser = "citizen" /\ pc' = "ready")
           => /\ Len(violations') = Len(violations)
              /\ \A i \in 1..Len(violations) :
                     violations'[i].status = violations[i].status]_vars

\* Position in areas of the area a record's area_name refers to, by the
\* area's name alone or by its name and city; 0 if it refers to none
AreaReferredTo(name) ==
    IF AreaResolves(name)
    THEN CHOOSE i \in 1..Len(areas) :
             \/ areas[i].area_name = name
             \/ areas[i].area_name \o ", " \o areas[i].city = name
    ELSE 0

\* The bar of the by-area chart a record is counted under
AreaGroupOf(vs, i) == EntryOf(displayAreaChart(vs), vs[i].area_name)

\* C16: in every reachable state any two records that refer to the same area
\* are counted under the same group of the by-area breakdown, a record that
\* loadViolations loaded and one that registerViolation created included.
C16_SameAreaSameGroup ==
    \A i, j \in 1..Len(violations) :
        (/\ AreaReferredTo(violations[i].area_name) # 0
         /\ AreaReferredTo(violations[i].area_name)
                = AreaReferredTo(violations[j].area_name))
            => AreaGroupOf(violations, i) = AreaGroupOf(violations, j)

\* C17: when showAlert is called again on a container before the hide timer
\* of an earlier alert on it has fired, the later alert stays on display as
\* it is when the earlier timer fires: a timer's callback that runs while a
\* later timer of the same container is pending hides and clears nothing.
C17_LaterAlertOutlivesEarlierTimer ==
    [][(/\ AlertTimeout
        /\ \E k \in 2..Len(timers) : timers[k] = Head(timers))
           => /\ alerts'[Head(timers)].display = "block"
              /\ alerts'[Head(timers)] = alerts[Head(timers)]]_vars

====
